---- MODULE Spec2Model ----
(***************************************************************************)
(* Model of wsi/tile.py: the grid partitioner (get_num_tiles,              *)
(* get_tile_indices), the tissue classifier (tissue_quantity), the tile    *)
(* summary aggregator (compute_tile_summary), the top-tile selector        *)
(* (TileSummary.top_tiles) and the batch scheduler                         *)
(* (multiprocess_images_to_tile_summaries).                                *)
(*                                                                         *)
(* Python floats are IEEE-754 doubles.  The code divides two ints with "/" *)
(* (a double), multiplies ints by that double, adds 1 and truncates with   *)
(* int(); it also takes math.ceil and round of such quotients.  A double   *)
(* is modelled as a record [i, f]: the value i + 0.f with f a sequence of  *)
(* binary fraction digits, kept to MANT_DIG significant bits by            *)
(* round-to-nearest-even after every operation.                            *)
(***************************************************************************)
EXTENDS Integers, Sequences, FiniteSets, TLC

VARIABLES
  pc,                \* position of the coordinator / of the call under check
  num_cpus,          \* multiprocessing.cpu_count()
  image_num_list,    \* the image_num_list argument (NoList for None)
  num_training_slides, \* slide.get_num_training_slides()
  bad_slides,        \* the slides on which summary() raises
  html,              \* the html argument
  tasks,             \* the tasks list of the coordinator
  workers,           \* per task: status and the slides summarised so far
  idx,               \* index of the result the coordinator waits for
  slide_nums,        \* the coordinator's slide_nums list
  report,            \* the slides generate_tiled_html_result wrote rows for
  error              \* the exception that left the coordinator, if any

VARIABLES
  rows, cols,        \* the image extent given to get_tile_indices
  row_tile_size, col_tile_size,  \* the tile extent given to get_tile_indices
  indices            \* the list get_tile_indices returned

VARIABLES
  tissue_percentage, \* the argument of tissue_quantity, in 1/PctDen percent
  amount             \* the TissueQuantity member it returned

VARIABLES
  img,               \* the dimensions parsed from the filtered image's name
  tile_percents,     \* what filter.tissue_percent returns for each tile
  tile_sum,          \* the TileSummary compute_tile_summary returned
  top                \* the list the last call of top_tiles returned

batch_vars == <<num_cpus, image_num_list, num_training_slides, bad_slides,
                html, tasks, workers, idx, slide_nums, report, error>>
grid_vars == <<rows, cols, row_tile_size, col_tile_size, indices>>
quantity_vars == <<tissue_percentage, amount>>
summary_vars == <<img, tile_percents, tile_sum, top>>
vars == <<pc, batch_vars, grid_vars, quantity_vars, summary_vars>>

NoValue == "NoValue"   \* a variable the operation under check does not use

BatchIdle ==
  /\ num_cpus = NoValue /\ image_num_list = NoValue
  /\ num_training_slides = NoValue /\ bad_slides = NoValue /\ html = NoValue
  /\ tasks = NoValue /\ workers = NoValue /\ idx = NoValue
  /\ slide_nums = NoValue /\ report = NoValue /\ error = NoValue
GridIdle ==
  /\ rows = NoValue /\ cols = NoValue /\ row_tile_size = NoValue
  /\ col_tile_size = NoValue /\ indices = NoValue
QuantityIdle == tissue_percentage = NoValue /\ amount = NoValue
SummaryIdle ==
  /\ img = NoValue /\ tile_percents = NoValue /\ tile_sum = NoValue
  /\ top = NoValue

\* ------------------------------------------------------------------------
\* Bounds of the model
\* ------------------------------------------------------------------------
MaxImages == 16      \* slide counts 0..MaxImages in the partition check
MaxCpus == 16        \* multiprocessing.cpu_count() ranges over 1..MaxCpus
MaxBatchImages == 4  \* slide counts 0..MaxBatchImages in the batch run
MaxBatchCpus == 3    \* multiprocessing.cpu_count() in the batch run
EquivImages == 15    \* the slides and the largest cpu count of the batches run
EquivCpus == 11      \*   both by one process and by the pool
MaxExtent == 6       \* rows and cols 0..MaxExtent given to get_tile_indices
MaxTile == 4         \* tile sizes 0..MaxTile given to get_tile_indices
PctDen == 100        \* tissue percentages are multiples of 1/PctDen percent
MinOrig == 1050      \* original widths and heights MinOrig..MaxOrig of the
MaxOrig == 1058      \*   slides summarised tile by tile
TopCols == 10        \* the ranked summaries have TopCols columns of tiles
MinTopRows == 8      \*   and MinTopRows..MaxTopRows rows of tiles
MaxTopRows == 11
MaxStride == 3       \* tile k of a ranked summary has the percentage
MaxShift == 2        \*   ((k * stride + shift) % TopMod) * TopStep
TopMod == 5
TopStep == 20

\* ------------------------------------------------------------------------
\* IEEE-754 double arithmetic on small non-negative values
\* ------------------------------------------------------------------------
MANT_DIG == 53       \* significant bits of a Python float

RECURSIVE BitLen(_)
BitLen(n) == IF n = 0 THEN 0 ELSE 1 + BitLen(n \div 2)

RECURSIVE LeadingZeros(_)
LeadingZeros(f) ==
  IF f = << >> \/ Head(f) = 1 THEN 0 ELSE 1 + LeadingZeros(Tail(f))

\* i + 0.f plus one unit in the last place of f
IncUlp(i, f) ==
  LET zeros == {j \in 1..Len(f) : f[j] = 0}
  IN IF zeros = {} THEN [i |-> i + 1, f |-> [j \in 1..Len(f) |-> 0]]
     ELSE LET pos == CHOOSE j \in zeros : \A k \in zeros : k <= j
          IN [i |-> i,
              f |-> [j \in 1..Len(f) |-> IF j < pos THEN f[j]
                                         ELSE IF j = pos THEN 1 ELSE 0]]

\* round the exact value i + 0.f (+ a non-zero tail when sticky) to MANT_DIG
\* significant bits, ties to even
RoundDouble(i, f, sticky) ==
  LET keep == IF i > 0 THEN MANT_DIG - BitLen(i) ELSE LeadingZeros(f) + MANT_DIG
  IN IF Len(f) <= keep THEN [i |-> i, f |-> f]
     ELSE LET guard == f[keep + 1]
              rest == sticky \/ \E j \in (keep + 2)..Len(f) : f[j] = 1
              lsb == IF keep = 0 THEN i % 2 ELSE f[keep]
              kept == SubSeq(f, 1, keep)
          IN IF guard = 1 /\ (rest \/ lsb = 1) THEN IncUlp(i, kept)
             ELSE [i |-> i, f |-> kept]

\* the binary digits of r/p (r < p), nbits of them after those of acc, and
\* the last remainder
RECURSIVE DivBits(_, _, _, _)
DivBits(r, p, nbits, acc) ==
  IF nbits = 0 THEN [f |-> acc, r |-> r]
  ELSE DivBits((2 * r) % p, p, nbits - 1, Append(acc, (2 * r) \div p))

\* n / p on two ints (true division), p > 0
FloatDiv(n, p) ==
  LET d == DivBits(n % p, p, MANT_DIG + BitLen(p) + 2, << >>)
  IN RoundDouble(n \div p, d.f, d.r # 0)

\* k * 0.f exactly, from the last digit (at) to the first: the fraction
\* digits and the carry into the integer part
RECURSIVE MulBits(_, _, _, _, _)
MulBits(k, f, at, carry, acc) ==
  IF at = 0 THEN [f |-> acc, c |-> carry]
  ELSE MulBits(k, f, at - 1, (k * f[at] + carry) \div 2,
               <<(k * f[at] + carry) % 2>> \o acc)

\* k * x for an int k >= 0 and a double x
FloatMul(k, x) ==
  LET m == MulBits(k, x.f, Len(x.f), 0, << >>)
  IN RoundDouble(k * x.i + m.c, m.f, FALSE)

\* x + k for a double x and an int k >= 0
FloatAdd(x, k) == RoundDouble(x.i + k, x.f, FALSE)

\* int(x): truncation toward zero
FloatToInt(x) == x.i

\* math.ceil(x)
FloatCeil(x) == IF \E j \in 1..Len(x.f) : x.f[j] = 1 THEN x.i + 1 ELSE x.i

\* round(x): nearest int, ties to even
FloatRound(x) ==
  LET half == Len(x.f) >= 1 /\ x.f[1] = 1
      more == \E j \in 2..Len(x.f) : x.f[j] = 1
  IN IF half /\ (more \/ x.i % 2 = 1) THEN x.i + 1 ELSE x.i

\* ------------------------------------------------------------------------
\* Python lists
\* ------------------------------------------------------------------------
\* list(range(a, b + 1))
Range(a, b) == [k \in 1..(IF b >= a THEN b - a + 1 ELSE 0) |-> a + k - 1]

\* Python's seq[lo:hi] for 0 <= lo
Slice(seq, lo, hi) ==
  LET h == IF hi > Len(seq) THEN Len(seq) ELSE hi
  IN IF lo >= h THEN << >> ELSE SubSeq(seq, lo + 1, h)

\* ------------------------------------------------------------------------
\* Grid partitioner: get_num_tiles, get_tile_indices
\* ------------------------------------------------------------------------
\* math.floor in place of math.ceil
get_num_tiles_floor(nrows, ncols, rts, cts) ==
  <<FloatToInt(FloatDiv(nrows, rts)), FloatToInt(FloatDiv(ncols, cts))>>

\* a tile count that is never below one per axis
get_num_tiles_at_least_one(nrows, ncols, rts, cts) ==
  LET nr == FloatCeil(FloatDiv(nrows, rts))
      nc == FloatCeil(FloatDiv(ncols, cts))
  IN <<IF nr < 1 THEN 1 ELSE nr, IF nc < 1 THEN 1 ELSE nc>>

get_num_tiles(nrows, ncols, rts, cts) ==
  <<FloatCeil(FloatDiv(nrows, rts)), FloatCeil(FloatDiv(ncols, cts))>>

\* a grid whose last row and column end at a multiple of the tile size
\* instead of at the image border
get_tile_indices_unclamped(nrows, ncols, rts, cts) ==
  LET num_tiles == get_num_tiles(nrows, ncols, rts, cts)
  IN [k \in 1..(num_tiles[1] * num_tiles[2]) |->
        LET r == (k - 1) \div num_tiles[2]
            c == (k - 1) % num_tiles[2]
        IN <<r * rts, (r + 1) * rts, c * cts, (c + 1) * cts, r + 1, c + 1>>]

\* the tuples (start_r, end_r, start_c, end_c, r + 1, c + 1) in the order the
\* nested loops append them: rows outer, columns inner
get_tile_indices(nrows, ncols, rts, cts) ==
  LET num_tiles == get_num_tiles(nrows, ncols, rts, cts)
      num_row_tiles == num_tiles[1]
      num_col_tiles == num_tiles[2]
  IN [k \in 1..(num_row_tiles * num_col_tiles) |->
        LET r == (k - 1) \div num_col_tiles
            c == (k - 1) % num_col_tiles
            start_r == r * rts
            end_r == IF r < num_row_tiles - 1 THEN (r + 1) * rts ELSE nrows
            start_c == c * cts
            end_c == IF c < num_col_tiles - 1 THEN (c + 1) * cts ELSE ncols
        IN <<start_r, end_r, start_c, end_c, r + 1, c + 1>>]

InitGrid ==
  /\ pc = "grid_start"
  /\ rows \in 0..MaxExtent /\ cols \in 0..MaxExtent
  /\ row_tile_size \in 0..MaxTile /\ col_tile_size \in 0..MaxTile
  /\ indices = << >>
  /\ BatchIdle /\ QuantityIdle /\ SummaryIdle

\* a call of get_tile_indices: rows / row_tile_size raises ZeroDivisionError
\* on a tile size of 0
GetTileIndices ==
  /\ pc = "grid_start"
  /\ IF row_tile_size = 0 \/ col_tile_size = 0
     THEN pc' = "grid_failed" /\ indices' = indices
     ELSE /\ pc' = "grid_done"
          /\ indices' = get_tile_indices(rows, cols, row_tile_size,
                                         col_tile_size)
  /\ UNCHANGED <<rows, cols, row_tile_size, col_tile_size>>
  /\ UNCHANGED <<batch_vars, quantity_vars, summary_vars>>

NextGrid == GetTileIndices
SpecGrid == InitGrid /\ [][NextGrid]_vars

\* ------------------------------------------------------------------------
\* Tissue classifier: tissue_quantity
\* ------------------------------------------------------------------------
TISSUE_THRESHOLD_PERCENT == 80
TISSUE_LOW_THRESHOLD_PERCENT == 10

\* the first comparison written with > in place of >=
tissue_quantity_exclusive(p) ==
  IF p > TISSUE_THRESHOLD_PERCENT * PctDen THEN "HIGH"
  ELSE IF p >= TISSUE_LOW_THRESHOLD_PERCENT * PctDen
          /\ p < TISSUE_THRESHOLD_PERCENT * PctDen THEN "MEDIUM"
  ELSE IF p > 0 /\ p < TISSUE_LOW_THRESHOLD_PERCENT * PctDen THEN "LOW"
  ELSE "NONE"

\* p is the percentage in units of 1/PctDen percent
tissue_quantity(p) ==
  IF p >= TISSUE_THRESHOLD_PERCENT * PctDen THEN "HIGH"
  ELSE IF p >= TISSUE_LOW_THRESHOLD_PERCENT * PctDen
          /\ p < TISSUE_THRESHOLD_PERCENT * PctDen THEN "MEDIUM"
  ELSE IF p > 0 /\ p < TISSUE_LOW_THRESHOLD_PERCENT * PctDen THEN "LOW"
  ELSE "NONE"

InitQuantity ==
  /\ pc = "quantity_start"
  /\ tissue_percentage \in 0..(100 * PctDen)
  /\ amount = "unset"
  /\ BatchIdle /\ GridIdle /\ SummaryIdle

TissueQuantity ==
  /\ pc = "quantity_start"
  /\ amount' = tissue_quantity(tissue_percentage)
  /\ pc' = "quantity_done"
  /\ UNCHANGED tissue_percentage
  /\ UNCHANGED <<batch_vars, grid_vars, summary_vars>>

NextQuantity == TissueQuantity
SpecQuantity == InitQuantity /\ [][NextQuantity]_vars

\* ------------------------------------------------------------------------
\* Tile summary aggregator: compute_tile_summary
\* ------------------------------------------------------------------------
ROW_TILE_SIZE == 1024
COL_TILE_SIZE == 1024
SCALE_FACTOR == 32   \* slide.SCALE_FACTOR

\* round(num / den) for ints num >= 0, den > 0: nearest, ties to even
RoundRatio(num, den) ==
  LET q == num \div den
      r == num % den
  IN IF 2 * r > den \/ (2 * r = den /\ q % 2 = 1) THEN q + 1 ELSE q

\* slide.small_to_large_mapping(small_pixel, large_dimensions): a pixel of
\* the scaled image to the pixel of the original image, original =
\* round(scaled * s) per axis with s the ratio of the original extent to the
\* scaled extent, the scaled extent being the original one divided by
\* SCALE_FACTOR
small_to_large_mapping(small_pixel, large_dimensions) ==
  <<RoundRatio(small_pixel[1] * large_dimensions[1],
               large_dimensions[1] \div SCALE_FACTOR),
    RoundRatio(small_pixel[2] * large_dimensions[2],
               large_dimensions[2] \div SCALE_FACTOR)>>

\* slide.parse_dimensions_from_image_filename: the original extent of a
\* slide and the extent of its scaled image
ImageOf(o_w, o_h) ==
  [o_w |-> o_w, o_h |-> o_h,
   w |-> o_w \div SCALE_FACTOR, h |-> o_h \div SCALE_FACTOR]

ScaledRowTileSize == FloatRound(FloatDiv(ROW_TILE_SIZE, SCALE_FACTOR))
ScaledColTileSize == FloatRound(FloatDiv(COL_TILE_SIZE, SCALE_FACTOR))

\* the number of tiles of the grid laid over the scaled image of im
NumTilesOf(im) ==
  LET n == get_num_tiles(im.h, im.w, ScaledRowTileSize, ScaledColTileSize)
  IN n[1] * n[2]

\* an adjustment that moves the start instead of the end
AdjustStart(o_s, o_e, tile_size) ==
  IF (o_e - o_s) > tile_size THEN <<o_s + 1, o_e>> ELSE <<o_s, o_e>>

\* one axis: the pixel adjustment of a mapped tile
Adjust(o_s, o_e, tile_size) ==
  IF (o_e - o_s) > tile_size THEN <<o_s, o_e - 1>> ELSE <<o_s, o_e>>

\* lines 519-532: the TileInfo of the count-th entry t of tile_indices
TileInfoOf(count, t, im, t_p) ==
  LET o_s == small_to_large_mapping(<<t[3], t[1]>>, <<im.o_w, im.o_h>>)
      o_e == small_to_large_mapping(<<t[4], t[2]>>, <<im.o_w, im.o_h>>)
      o_c == Adjust(o_s[1], o_e[1], COL_TILE_SIZE)
      o_r == Adjust(o_s[2], o_e[2], ROW_TILE_SIZE)
  IN [tile_num |-> count, r |-> t[5], c |-> t[6],
      r_s |-> t[1], r_e |-> t[2], c_s |-> t[3], c_e |-> t[4],
      o_r_s |-> o_r[1], o_r_e |-> o_r[2], o_c_s |-> o_c[1], o_c_e |-> o_c[2],
      tissue_percentage |-> t_p]

\* a tally with independent ifs on the thresholds: a HIGH tile is also
\* counted as MEDIUM
TallyOverlapping(tiles, q) ==
  Cardinality({k \in 1..Len(tiles) :
     \/ tissue_quantity(tiles[k].tissue_percentage) = q
     \/ q = "MEDIUM" /\ tissue_quantity(tiles[k].tissue_percentage) = "HIGH"})

\* lines 535-543: how often the if/elif chain increments the counter of q
Tally(tiles, q) ==
  Cardinality({k \in 1..Len(tiles) :
     tissue_quantity(tiles[k].tissue_percentage) = q})

\* the TileSummary returned for a scaled image of dimensions im whose tiles
\* have the tissue percentages t_ps
compute_tile_summary(im, t_ps) ==
  LET num_tiles == get_num_tiles(im.h, im.w, ScaledRowTileSize,
                                 ScaledColTileSize)
      tile_indices == get_tile_indices(im.h, im.w, ScaledRowTileSize,
                                       ScaledColTileSize)
      tiles == [count \in 1..Len(tile_indices) |->
                  TileInfoOf(count, tile_indices[count], im, t_ps[count])]
  IN [orig_w |-> im.o_w, orig_h |-> im.o_h,
      orig_tile_w |-> COL_TILE_SIZE, orig_tile_h |-> ROW_TILE_SIZE,
      scaled_w |-> im.w, scaled_h |-> im.h,
      scaled_tile_w |-> ScaledColTileSize,
      scaled_tile_h |-> ScaledRowTileSize,
      num_col_tiles |-> num_tiles[2], num_row_tiles |-> num_tiles[1],
      tiles |-> tiles,
      count |-> Len(tile_indices),
      high |-> Tally(tiles, "HIGH"), medium |-> Tally(tiles, "MEDIUM"),
      low |-> Tally(tiles, "LOW"), none |-> Tally(tiles, "NONE")]

\* tissue percentages tried per tile: one of each bucket
TilePercents == {0, 1, TISSUE_LOW_THRESHOLD_PERCENT * PctDen,
                 TISSUE_THRESHOLD_PERCENT * PctDen}

NoSummary == [count |-> -1, tiles |-> << >>]
NoTop == [called |-> FALSE, tiles |-> << >>]

\* filter.tissue_percent raises on the tile instead of returning a percentage
TissueFails == -1

InitSummary ==
  /\ pc = "summary_start"
  /\ \E o_w \in MinOrig..MaxOrig, o_h \in MinOrig..MaxOrig :
       img = ImageOf(o_w, o_h)
  /\ tile_percents \in [1..NumTilesOf(img) -> TilePercents \cup {TissueFails}]
  /\ tile_sum = NoSummary
  /\ top = NoTop
  /\ BatchIdle /\ GridIdle /\ QuantityIdle

\* the tiles on which filter.tissue_percent raises
FailingTiles(t_ps) == {k \in 1..Len(t_ps) : t_ps[k] = TissueFails}

\* a call that catches the error of a tile and returns the summary built from
\* the tiles before it
ComputeTileSummaryPartial ==
  /\ pc = "summary_start"
  /\ IF FailingTiles(tile_percents) # {}
     THEN LET first == CHOOSE k \in FailingTiles(tile_percents) :
                         \A j \in FailingTiles(tile_percents) : k <= j
              whole == compute_tile_summary(img,
                         [k \in 1..Len(tile_percents) |->
                            IF k < first THEN tile_percents[k] ELSE 0])
          IN tile_sum' = [whole EXCEPT !.tiles = SubSeq(@, 1, first - 1),
                                       !.count = first - 1]
     ELSE tile_sum' = compute_tile_summary(img, tile_percents)
  /\ pc' = "summary_done"
  /\ UNCHANGED <<img, tile_percents, top>>
  /\ UNCHANGED <<batch_vars, grid_vars, quantity_vars>>

\* a call of compute_tile_summary: an exception of filter.tissue_percent in
\* the loop leaves the function, and with it the TileSummary under
\* construction, which only the local name tile_sum refers to
ComputeTileSummary ==
  /\ pc = "summary_start"
  /\ IF FailingTiles(tile_percents) # {}
     THEN pc' = "summary_failed" /\ tile_sum' = tile_sum
     ELSE /\ pc' = "summary_done"
          /\ tile_sum' = compute_tile_summary(img, tile_percents)
  /\ UNCHANGED <<img, tile_percents, top>>
  /\ UNCHANGED <<batch_vars, grid_vars, quantity_vars>>

\* ------------------------------------------------------------------------
\* Top-tile selector: TileSummary.tiles_by_tissue_percentage, top_tiles
\* ------------------------------------------------------------------------
NumTopTiles == 100

\* the list that holds tiles[j] at position rank[j]
Permuted(tiles, rank) ==
  [r \in 1..Len(tiles) |-> tiles[CHOOSE j \in 1..Len(tiles) : rank[j] = r]]

\* sorted(..., key) without reverse=True: lowest percentage first
tiles_by_tissue_percentage_ascending(tiles) ==
  Permuted(tiles, [j \in 1..Len(tiles) |->
    Cardinality({k \in 1..Len(tiles) :
       \/ tiles[k].tissue_percentage < tiles[j].tissue_percentage
       \/ /\ tiles[k].tissue_percentage = tiles[j].tissue_percentage
          /\ k <= j})])

\* sorted(..., key) followed by a reversal of the list: equal percentages end
\* up in descending tile order
tiles_by_tissue_percentage_reversed(tiles) ==
  Permuted(tiles, [j \in 1..Len(tiles) |->
    Cardinality({k \in 1..Len(tiles) :
       \/ tiles[k].tissue_percentage > tiles[j].tissue_percentage
       \/ /\ tiles[k].tissue_percentage = tiles[j].tissue_percentage
          /\ k >= j})])

\* sorted(self.tiles, key=lambda t: t.tissue_percentage, reverse=True):
\* sorted() is stable also with reverse=True, so a tile lands after every
\* tile of higher percentage and every tile of equal percentage before it
tiles_by_tissue_percentage(tiles) ==
  Permuted(tiles, [j \in 1..Len(tiles) |->
    Cardinality({k \in 1..Len(tiles) :
       \/ tiles[k].tissue_percentage > tiles[j].tissue_percentage
       \/ /\ tiles[k].tissue_percentage = tiles[j].tissue_percentage
          /\ k <= j})])

\* sorted_tiles[:100]
top_tiles(tiles) == Slice(tiles_by_tissue_percentage(tiles), 0, NumTopTiles)

\* a call that sorts self.tiles in place (self.tiles.sort(...)) before the cut
TopTilesInPlace ==
  /\ pc = "summary_done"
  /\ tile_sum' = [tile_sum EXCEPT
                    !.tiles = tiles_by_tissue_percentage(tile_sum.tiles)]
  /\ top' = [called |-> TRUE, tiles |-> top_tiles(tile_sum.tiles)]
  /\ UNCHANGED <<pc, img, tile_percents>>
  /\ UNCHANGED <<batch_vars, grid_vars, quantity_vars>>

\* a call of tile_sum.top_tiles(): sorted() builds a new list
TopTiles ==
  /\ pc = "summary_done"
  /\ top' = [called |-> TRUE, tiles |-> top_tiles(tile_sum.tiles)]
  /\ UNCHANGED <<pc, img, tile_percents, tile_sum>>
  /\ UNCHANGED <<batch_vars, grid_vars, quantity_vars>>

NextSummary == ComputeTileSummary \/ TopTiles
SpecSummary == InitSummary /\ [][NextSummary]_vars

InitTop ==
  /\ pc = "summary_start"
  /\ \E nrows \in MinTopRows..MaxTopRows :
       img = ImageOf(COL_TILE_SIZE * TopCols, ROW_TILE_SIZE * nrows)
  /\ \E stride \in 0..MaxStride, shift \in 0..MaxShift :
       tile_percents = [k \in 1..NumTilesOf(img) |->
                          ((k * stride + shift) % TopMod) * TopStep * PctDen]
  /\ tile_sum = NoSummary
  /\ top = NoTop
  /\ BatchIdle /\ GridIdle /\ QuantityIdle

SpecTop == InitTop /\ [][NextSummary]_vars

\* ------------------------------------------------------------------------
\* Batch scheduler: multiprocess_images_to_tile_summaries
\* ------------------------------------------------------------------------
\* image_num_list=None, and an explicit list
NoList == [is_none |-> TRUE, items |-> << >>]
ListOf(items) == [is_none |-> FALSE, items |-> items]
\* no call of generate_tiled_html_result yet, and the rows a call wrote
NoReport == [written |-> FALSE, slides |-> << >>]
ReportOf(nums) == [written |-> TRUE, slides |-> nums]
NoError == "NoError"

\* the slide count the coordinator works with
NumTrainImages(list, nslides) ==
  IF ~list.is_none THEN Len(list.items) ELSE nslides

\* a worker count that is never capped below one
NumProcessesAtLeastOne(cpus, count) ==
  IF cpus > count THEN (IF count < 1 THEN 1 ELSE count) ELSE cpus

\* the worker count after capping at the slide count
NumProcesses(cpus, count) == IF cpus > count THEN count ELSE cpus

StartIndex(num_process, images_per_process) ==
  FloatToInt(FloatAdd(FloatMul(num_process - 1, images_per_process), 1))

\* an end index one too far: a task ends on the first slide of the next one
EndIndexShared(num_process, images_per_process) ==
  FloatToInt(FloatMul(num_process, images_per_process)) + 1

EndIndex(num_process, images_per_process) ==
  FloatToInt(FloatMul(num_process, images_per_process))

\* the slides of task number num_process, in the order the worker takes them
TaskSlides(list, num_process, images_per_process) ==
  LET start_index == StartIndex(num_process, images_per_process)
      end_index == EndIndex(num_process, images_per_process)
  IN IF ~list.is_none THEN Slice(list.items, start_index - 1, end_index)
     ELSE Range(start_index, end_index)

\* the tasks list built by the start_index/end_index loop (count >= 1)
BuildTasks(list, count, num_processes) ==
  LET images_per_process == FloatDiv(count, num_processes)
  IN [num_process \in 1..num_processes |->
        TaskSlides(list, num_process, images_per_process)]

RECURSIVE Flatten(_)
Flatten(seqs) == IF seqs = << >> THEN << >> ELSE Head(seqs) \o Flatten(Tail(seqs))

\* sorted(seq) on ints, ascending: sorted() is stable, so the element at
\* position j lands after every smaller one and every equal one before it
SortedInts(seq) ==
  LET rank(j) == Cardinality({k \in 1..Len(seq) :
                     seq[k] < seq[j] \/ (seq[k] = seq[j] /\ k <= j)})
  IN [r \in 1..Len(seq) |-> seq[CHOOSE j \in 1..Len(seq) : rank(j) = r]]

\* a report generator that keeps the order it is given
generate_tiled_html_result_unsorted(nums) == nums

\* the rows generate_tiled_html_result writes, in order
generate_tiled_html_result(nums) == SortedInts(nums)

\* the slide identifiers of the input, in input order
InputSlides(list, nslides) ==
  IF ~list.is_none THEN list.items ELSE Range(1, nslides)

\* the explicit lists tried: ascending, descending and rotated identifiers
Lists(n) == { [k \in 1..n |-> k], [k \in 1..n |-> n + 1 - k],
              [k \in 1..n |-> (k % n) + 1] }

InitBatchWith(maxImages, maxCpus, bads, htmls) ==
  /\ pc = "start"
  /\ num_cpus \in 1..maxCpus
  /\ \E n \in 0..maxImages :
       \/ image_num_list = NoList /\ num_training_slides = n
       \/ /\ image_num_list \in {ListOf(l) : l \in Lists(n)}
          /\ num_training_slides = 0
  /\ bad_slides \in bads
  /\ html \in htmls
  /\ tasks = << >> /\ workers = << >> /\ idx = 0 /\ slide_nums = << >>
  /\ report = NoReport /\ error = NoError
  /\ GridIdle /\ QuantityIdle /\ SummaryIdle

\* lines 644-688: count the slides, cap the worker count, build the tasks and
\* hand each one to the pool
Dispatch ==
  /\ pc = "start"
  /\ LET count == NumTrainImages(image_num_list, num_training_slides)
         num_processes == NumProcesses(num_cpus, count)
     IN IF num_processes = 0
        THEN /\ pc' = "failed"
             /\ error' = "ZeroDivisionError"
             /\ UNCHANGED <<tasks, workers, idx, slide_nums>>
        ELSE /\ tasks' = BuildTasks(image_num_list, count, num_processes)
             /\ workers' = [t \in 1..num_processes |->
                              [status |-> "running", done |-> << >>]]
             /\ idx' = 1
             /\ slide_nums' = << >>
             /\ pc' = "collect"
             /\ error' = error
  /\ UNCHANGED <<num_cpus, image_num_list, num_training_slides, bad_slides,
                 html, report>>
  /\ UNCHANGED <<grid_vars, quantity_vars, summary_vars>>

\* one pass of the for loop of image_list_to_tile_summaries /
\* image_range_to_tile_summaries in the worker of task t: summary(slide_num)
\* returns, or raises and ends the call
WorkerSlide(t) ==
  /\ t \in 1..Len(workers)
  /\ workers[t].status = "running"
  /\ Len(workers[t].done) < Len(tasks[t])
  /\ LET slide_num == tasks[t][Len(workers[t].done) + 1]
     IN workers' = [workers EXCEPT ![t] =
          IF slide_num \in bad_slides
          THEN [status |-> "raised", done |-> @.done]
          ELSE [status |-> "running", done |-> Append(@.done, slide_num)]]
  /\ UNCHANGED <<pc, num_cpus, image_num_list, num_training_slides,
                 bad_slides, html, tasks, idx, slide_nums, report, error>>
  /\ UNCHANGED <<grid_vars, quantity_vars, summary_vars>>

\* the loop of the worker of task t is over: the call returns its list
WorkerReturn(t) ==
  /\ t \in 1..Len(workers)
  /\ workers[t].status = "running"
  /\ Len(workers[t].done) = Len(tasks[t])
  /\ workers' = [workers EXCEPT ![t].status = "returned"]
  /\ UNCHANGED <<pc, num_cpus, image_num_list, num_training_slides,
                 bad_slides, html, tasks, idx, slide_nums, report, error>>
  /\ UNCHANGED <<grid_vars, quantity_vars, summary_vars>>

\* result.get() on a task that returned: extend slide_nums
CollectResult ==
  /\ pc = "collect"
  /\ idx <= Len(tasks)
  /\ workers[idx].status = "returned"
  /\ slide_nums' = slide_nums \o workers[idx].done
  /\ idx' = idx + 1
  /\ UNCHANGED <<pc, num_cpus, image_num_list, num_training_slides,
                 bad_slides, html, tasks, workers, report, error>>
  /\ UNCHANGED <<grid_vars, quantity_vars, summary_vars>>

\* a coordinator that swallows the exception and goes on to the next result
CollectErrorSkipped ==
  /\ pc = "collect"
  /\ idx <= Len(tasks)
  /\ workers[idx].status = "raised"
  /\ idx' = idx + 1
  /\ UNCHANGED <<pc, num_cpus, image_num_list, num_training_slides, bad_slides,
                 html, tasks, workers, slide_nums, report, error>>
  /\ UNCHANGED <<grid_vars, quantity_vars, summary_vars>>

\* result.get() on a task that raised: the exception is raised again in the
\* coordinator, which has no handler
CollectError ==
  /\ pc = "collect"
  /\ idx <= Len(tasks)
  /\ workers[idx].status = "raised"
  /\ pc' = "failed"
  /\ error' = "WorkerError"
  /\ UNCHANGED <<num_cpus, image_num_list, num_training_slides, bad_slides,
                 html, tasks, workers, idx, slide_nums, report>>
  /\ UNCHANGED <<grid_vars, quantity_vars, summary_vars>>

\* a coordinator that does not wait for the results before the report
GenerateReportEarly ==
  /\ pc = "collect"
  /\ report' = IF html THEN ReportOf(generate_tiled_html_result(slide_nums))
                      ELSE NoReport
  /\ pc' = "done"
  /\ UNCHANGED <<num_cpus, image_num_list, num_training_slides, bad_slides,
                 html, tasks, workers, idx, slide_nums, error>>
  /\ UNCHANGED <<grid_vars, quantity_vars, summary_vars>>

\* lines 696-699: every result was collected
GenerateReport ==
  /\ pc = "collect"
  /\ idx > Len(tasks)
  /\ report' = IF html THEN ReportOf(generate_tiled_html_result(slide_nums))
                      ELSE NoReport
  /\ pc' = "done"
  /\ UNCHANGED <<num_cpus, image_num_list, num_training_slides, bad_slides,
                 html, tasks, workers, idx, slide_nums, error>>
  /\ UNCHANGED <<grid_vars, quantity_vars, summary_vars>>

\* at most one slide of the input raises
BadSets(maxImages) == {{}} \cup {{b} : b \in 1..maxImages}

InitPart == InitBatchWith(MaxImages, MaxCpus, {{}}, {TRUE})
NextPart == Dispatch
SpecPart == InitPart /\ [][NextPart]_vars

InitBatch == InitBatchWith(MaxBatchImages, MaxBatchCpus,
                           BadSets(MaxBatchImages), BOOLEAN)
NextBatch ==
  \/ Dispatch
  \/ \E t \in 1..MaxBatchCpus : WorkerSlide(t)
  \/ \E t \in 1..MaxBatchCpus : WorkerReturn(t)
  \/ CollectResult
  \/ CollectError
  \/ GenerateReport
SpecBatch == InitBatch /\ [][NextBatch]_vars

\* the coordinator is a sequential program: once in the results loop it takes
\* its next step whenever the result.get() it is blocked on can return.
\* Nothing makes a worker go on: a worker may hang in summary() for ever.
SpecBatchLive ==
  /\ InitBatch /\ [][NextBatch]_vars
  /\ WF_vars(CollectResult) /\ WF_vars(CollectError)
  /\ WF_vars(GenerateReport)

\* singleprocess_images_to_tile_summaries: summary() on every slide of the
\* input in input order, in the calling process, then the report for the
\* input list
singleprocess_images_to_tile_summaries(list, nslides, with_html) ==
  LET nums == InputSlides(list, nslides)
  IN [summaries |-> nums,
      report |-> IF with_html THEN ReportOf(generate_tiled_html_result(nums))
                              ELSE NoReport]

\* a batch of EquivImages training slides without a failing slide, on one
\* cpu, on two and on EquivCpus
InitEquiv ==
  /\ pc = "start"
  /\ num_cpus \in {1, 2, EquivCpus}
  /\ image_num_list = NoList /\ num_training_slides = EquivImages
  /\ bad_slides = {}
  /\ html = TRUE
  /\ tasks = << >> /\ workers = << >> /\ idx = 0 /\ slide_nums = << >>
  /\ report = NoReport /\ error = NoError
  /\ GridIdle /\ QuantityIdle /\ SummaryIdle
NextEquiv ==
  \/ Dispatch
  \/ \E t \in 1..EquivCpus : WorkerSlide(t)
  \/ \E t \in 1..EquivCpus : WorkerReturn(t)
  \/ CollectResult
  \/ GenerateReport
SpecEquiv == InitEquiv /\ [][NextEquiv]_vars

\* ------------------------------------------------------------------------
\* Properties of the batch scheduler
\* ------------------------------------------------------------------------
Count(seq, x) == Cardinality({j \in 1..Len(seq) : seq[j] = x})
Elems(seq) == {seq[j] : j \in 1..Len(seq)}
Ascending(seq) == \A j \in 1..(Len(seq) - 1) : seq[j] <= seq[j + 1]
Dispatched == pc = "collect" \/ pc = "done" \/ (pc = "failed" /\ error = "WorkerError")

\* C1: once the tasks are built (1 <= P <= count), every slide identifier of
\* the input belongs to exactly one task: none dropped, none in two tasks.
C1_PartitionCoversInput ==
  Dispatched =>
    LET input == InputSlides(image_num_list, num_training_slides)
        given == Flatten(tasks)
    IN /\ \A s \in Elems(input) : Count(given, s) = 1
       /\ Elems(given) \subseteq Elems(input)

\* C7: the slides the report is generated for are in ascending identifier
\* order and are the slides of the tasks, whatever the order in which the
\* workers ran and finished.
C7_ReportSortedAscending ==
  report.written =>
    /\ Ascending(report.slides)
    /\ \A s \in Elems(Flatten(tasks)) \cup Elems(report.slides) :
         Count(report.slides, s) = Count(Flatten(tasks), s)

\* C7 witness: a report was written from the results of at least two tasks
\* whose concatenation slide_nums was not in ascending order.
C7_Witness ==
  /\ report.written
  /\ ~Ascending(slide_nums)
  /\ Len(tasks) >= 2

\* C8 as stated: when a worker raised and the coordinator has ended, the
\* result of every other worker was collected (get() was called on it).
C8_OtherResultsCollected ==
  (pc = "failed" /\ error = "WorkerError"
     /\ \A t \in 1..Len(workers) : workers[t].status # "running")
  => \A t \in 1..Len(workers) : workers[t].status = "returned" => t < idx

\* C8 amended: a worker that raised stopped at the failing slide; the
\* coordinator fails on reaching that task's result, holding exactly the
\* results of the tasks before it, without a report; and it finishes only
\* when no task raised.
C8_FailureAbortsBatch ==
  /\ \A t \in 1..Len(workers) :
       workers[t].status = "raised" =>
         /\ Len(workers[t].done) < Len(tasks[t])
         /\ tasks[t][Len(workers[t].done) + 1] \in bad_slides
  /\ (pc = "failed" /\ error = "WorkerError") =>
       /\ workers[idx].status = "raised"
       /\ slide_nums = Flatten(SubSeq(tasks, 1, idx - 1))
       /\ ~report.written
  /\ pc = "done" =>
       \A t \in 1..Len(workers) : workers[t].status = "returned"

\* C8 witness: the coordinator failed on the second of three tasks, with the
\* first collected and the third returned but never collected.
C8_Witness ==
  /\ pc = "failed" /\ error = "WorkerError"
  /\ idx = 2 /\ Len(tasks) = 3
  /\ slide_nums # << >>
  /\ workers[3].status = "returned"

\* ------------------------------------------------------------------------
\* Properties of the grid partitioner and of the classifier
\* ------------------------------------------------------------------------
CeilDiv(a, b) == (a + b - 1) \div b

\* the tiles of the grid whose half-open rectangle holds pixel (r, c)
TilesHolding(r, c) ==
  {k \in 1..Len(indices) : /\ indices[k][1] <= r /\ r < indices[k][2]
                           /\ indices[k][3] <= c /\ c < indices[k][4]}

\* C2: for positive extents and tile sizes, every pixel of [0,rows) x [0,cols)
\* lies in exactly one tile, every tile lies inside the rectangle, and there
\* are ceil(rows/row_tile_size) * ceil(cols/col_tile_size) tiles.
C2_GridPartitionsImage ==
  (pc = "grid_done" /\ rows > 0 /\ cols > 0) =>
    /\ \A r \in 0..(rows - 1), c \in 0..(cols - 1) :
         Cardinality(TilesHolding(r, c)) = 1
    /\ \A k \in 1..Len(indices) :
         /\ 0 <= indices[k][1] /\ indices[k][1] < indices[k][2]
         /\ indices[k][2] <= rows
         /\ 0 <= indices[k][3] /\ indices[k][3] < indices[k][4]
         /\ indices[k][4] <= cols
    /\ Len(indices) = CeilDiv(rows, row_tile_size) * CeilDiv(cols, col_tile_size)

\* C2 witness: a grid of at least two rows and two columns of tiles whose last
\* row and last column are partial tiles.
C2_Witness ==
  /\ pc = "grid_done"
  /\ rows > row_tile_size /\ rows % row_tile_size # 0
  /\ cols > col_tile_size /\ cols % col_tile_size # 0
  /\ Len(indices) >= 4

\* C3: every percentage in [0,100] falls in exactly the bucket the thresholds
\* 80 and 10 give it: >= 80 HIGH, [10,80) MEDIUM, (0,10) LOW, 0 NONE.
C3_QuantityBuckets ==
  pc = "quantity_done" =>
    /\ amount \in {"HIGH", "MEDIUM", "LOW", "NONE"}
    /\ amount = "HIGH" <=> tissue_percentage >= 80 * PctDen
    /\ amount = "MEDIUM" <=> (10 * PctDen <= tissue_percentage
                              /\ tissue_percentage < 80 * PctDen)
    /\ amount = "LOW" <=> (0 < tissue_percentage
                           /\ tissue_percentage < 10 * PctDen)
    /\ amount = "NONE" <=> tissue_percentage = 0

\* C3 witness: the boundary value 80 was classified.
C3_Witness ==
  /\ pc = "quantity_done"
  /\ tissue_percentage = 80 * PctDen
  /\ amount = "HIGH"

\* ------------------------------------------------------------------------
\* Properties of the tile summary and of the top-tile selector
\* ------------------------------------------------------------------------
Min(a, b) == IF a < b THEN a ELSE b
TileNums(tiles) == {tiles[j].tile_num : j \in 1..Len(tiles)}

\* C4: in a returned TileSummary the four bucket counters add up to the
\* number of tiles, and count is the number of tiles.
C4_CountersSumToTiles ==
  pc = "summary_done" =>
    /\ tile_sum.high + tile_sum.medium + tile_sum.low + tile_sum.none
         = Len(tile_sum.tiles)
    /\ tile_sum.count = Len(tile_sum.tiles)

\* C4 witness: a summary of four tiles, one in each bucket.
C4_Witness ==
  /\ pc = "summary_done"
  /\ Len(tile_sum.tiles) = 4
  /\ tile_sum.high = 1 /\ tile_sum.medium = 1
  /\ tile_sum.low = 1 /\ tile_sum.none = 1

\* C5: top_tiles returns min(100, len(tiles)) distinct tiles of the summary,
\* in non-increasing order of tissue_percentage, and no tile left out has a
\* strictly greater percentage than a tile returned.
C5_TopTilesHighestDescending ==
  top.called =>
    /\ Len(top.tiles) = Min(100, Len(tile_sum.tiles))
    /\ \A j \in 1..Len(top.tiles) :
         /\ top.tiles[j].tile_num \in 1..Len(tile_sum.tiles)
         /\ top.tiles[j] = tile_sum.tiles[top.tiles[j].tile_num]
    /\ Cardinality(TileNums(top.tiles)) = Len(top.tiles)
    /\ \A j \in 1..(Len(top.tiles) - 1) :
         top.tiles[j].tissue_percentage >= top.tiles[j + 1].tissue_percentage
    /\ \A k \in 1..Len(tile_sum.tiles) :
         tile_sum.tiles[k].tile_num \notin TileNums(top.tiles) =>
           \A j \in 1..Len(top.tiles) :
             tile_sum.tiles[k].tissue_percentage
               <= top.tiles[j].tissue_percentage

\* C5 witness: more than 100 tiles of differing percentages were ranked and
\* 100 of them returned.
C5_Witness ==
  /\ top.called
  /\ Len(tile_sum.tiles) > 100
  /\ Len(top.tiles) = 100
  /\ top.tiles[1].tissue_percentage > top.tiles[100].tissue_percentage

\* tiles of equal percentage are returned in ascending tile_num order, and a
\* tile left out with the percentage of a returned tile has a higher tile_num
TiesInTileOrder ==
  top.called =>
    /\ \A i, j \in 1..Len(top.tiles) :
         (i < j /\ top.tiles[i].tissue_percentage
                     = top.tiles[j].tissue_percentage)
           => top.tiles[i].tile_num < top.tiles[j].tile_num
    /\ \A k \in 1..Len(tile_sum.tiles) :
         tile_sum.tiles[k].tile_num \notin TileNums(top.tiles) =>
           \A j \in 1..Len(top.tiles) :
             top.tiles[j].tissue_percentage
                 = tile_sum.tiles[k].tissue_percentage
               => top.tiles[j].tile_num < tile_sum.tiles[k].tile_num

\* C6: equal percentages keep the tile order of the summary, also across the
\* cut at 100, and a further call of top_tiles on the unchanged summary
\* returns the same list.
C6_TiesStableAndRepeatable ==
  /\ []TiesInTileOrder
  /\ [][(top.called /\ top'.called /\ tile_sum' = tile_sum)
          => top'.tiles = top.tiles]_vars

\* C6 witness: the cut at 100 fell between tiles of equal percentage.
C6_Witness ==
  /\ top.called
  /\ Len(tile_sum.tiles) > 100
  /\ \E k \in 1..Len(tile_sum.tiles) :
       /\ tile_sum.tiles[k].tile_num \notin TileNums(top.tiles)
       /\ tile_sum.tiles[k].tissue_percentage
            = top.tiles[Len(top.tiles)].tissue_percentage
  /\ top.tiles[1].tissue_percentage > top.tiles[100].tissue_percentage

MappedStart(t) ==
  small_to_large_mapping(<<t.c_s, t.r_s>>, <<img.o_w, img.o_h>>)
MappedEnd(t) ==
  small_to_large_mapping(<<t.c_e, t.r_e>>, <<img.o_w, img.o_h>>)
MappedSize(t, axis) == MappedEnd(t)[axis] - MappedStart(t)[axis]

\* C10: the start of a tile is the mapped start on both axes; on an axis whose
\* mapped size is the canonical size plus one the end is the mapped end minus
\* one and the size is the canonical size; on an axis whose mapped size is at
\* most the canonical size the end is the mapped end; each axis on its own.
C10_CorrectionPerAxisOnEnd ==
  pc = "summary_done" =>
    \A k \in 1..Len(tile_sum.tiles) :
      LET t == tile_sum.tiles[k]
      IN /\ t.o_c_s = MappedStart(t)[1]
         /\ t.o_r_s = MappedStart(t)[2]
         /\ MappedSize(t, 1) = COL_TILE_SIZE + 1 =>
              (t.o_c_e = MappedEnd(t)[1] - 1
                 /\ t.o_c_e - t.o_c_s = COL_TILE_SIZE)
         /\ MappedSize(t, 1) <= COL_TILE_SIZE => t.o_c_e = MappedEnd(t)[1]
         /\ MappedSize(t, 2) = ROW_TILE_SIZE + 1 =>
              (t.o_r_e = MappedEnd(t)[2] - 1
                 /\ t.o_r_e - t.o_r_s = ROW_TILE_SIZE)
         /\ MappedSize(t, 2) <= ROW_TILE_SIZE => t.o_r_e = MappedEnd(t)[2]

\* C10 witness: a tile mapped one pixel too wide and not too high: its end
\* column was moved back by one, its end row and both starts were kept.
C10_Witness ==
  /\ pc = "summary_done"
  /\ \E k \in 1..Len(tile_sum.tiles) :
       LET t == tile_sum.tiles[k]
       IN /\ MappedSize(t, 1) = COL_TILE_SIZE + 1
          /\ MappedSize(t, 2) <= ROW_TILE_SIZE
          /\ t.o_c_e = MappedEnd(t)[1] - 1
          /\ t.o_r_e = MappedEnd(t)[2]
          /\ t.o_c_s = MappedStart(t)[1]

\* ------------------------------------------------------------------------
\* Further properties of the grid partitioner
\* ------------------------------------------------------------------------
GridCallEnded == pc = "grid_done" \/ pc = "grid_failed"
ZeroTileSize == row_tile_size = 0 \/ col_tile_size = 0
ZeroExtent == rows = 0 \/ cols = 0

\* C11 as stated: a call with rows == 0, cols == 0 or a tile size of 0 ends
\* in an error and returns no grid.
C11_ZeroGeometryRejected ==
  (GridCallEnded /\ (ZeroExtent \/ ZeroTileSize)) => pc = "grid_failed"

\* C11 amended: a tile size of 0 ends the call in an error before any tile is
\* built; rows == 0 or cols == 0 with positive tile sizes raises nothing and
\* returns the empty grid.
C11_ZeroTileSizeFailsZeroExtentEmpty ==
  GridCallEnded =>
    /\ ZeroTileSize => (pc = "grid_failed" /\ indices = << >>)
    /\ (ZeroExtent /\ ~ZeroTileSize) => (pc = "grid_done" /\ indices = << >>)
    /\ (~ZeroExtent /\ ~ZeroTileSize) => (pc = "grid_done" /\ indices # << >>)

\* C11 witness: a call with zero rows, positive columns and positive tile
\* sizes returned.
C11_Witness ==
  /\ pc = "grid_done"
  /\ rows = 0 /\ cols > 0
  /\ indices = << >>

\* the grid of the example rows=2000, cols=1500 with tiles of 1024 x 1024
ExampleGrid == get_tile_indices(2000, 1500, 1024, 1024)

\* C14: for positive extents and tile sizes a tile above the last grid row is
\* row_tile_size high, a tile of the last grid row is
\* rows - (num_row_tiles - 1) * row_tile_size high, which lies in
\* 1..row_tile_size; likewise for widths; an extent below the tile size gives
\* one row (column) of that extent; the example grid has 4 tiles with last
\* row height 976 and last column width 476.
C14_TileExtents ==
  (pc = "grid_done" /\ rows > 0 /\ cols > 0) =>
    LET num_row_tiles == CeilDiv(rows, row_tile_size)
        num_col_tiles == CeilDiv(cols, col_tile_size)
        last_h == rows - (num_row_tiles - 1) * row_tile_size
        last_w == cols - (num_col_tiles - 1) * col_tile_size
    IN /\ \A k \in 1..Len(indices) :
            LET t == indices[k]
            IN /\ t[5] \in 1..num_row_tiles /\ t[6] \in 1..num_col_tiles
               /\ t[5] < num_row_tiles => t[2] - t[1] = row_tile_size
               /\ t[5] = num_row_tiles => t[2] - t[1] = last_h
               /\ t[6] < num_col_tiles => t[4] - t[3] = col_tile_size
               /\ t[6] = num_col_tiles => t[4] - t[3] = last_w
       /\ 1 <= last_h /\ last_h <= row_tile_size
       /\ 1 <= last_w /\ last_w <= col_tile_size
       /\ rows < row_tile_size =>
            \A k \in 1..Len(indices) : indices[k][5] = 1
                                       /\ indices[k][2] - indices[k][1] = rows
       /\ cols < col_tile_size =>
            \A k \in 1..Len(indices) : indices[k][6] = 1
                                       /\ indices[k][4] - indices[k][3] = cols
       /\ Len(ExampleGrid) = 4
       /\ ExampleGrid[4][2] - ExampleGrid[4][1] = 976
       /\ ExampleGrid[4][4] - ExampleGrid[4][3] = 476
       /\ ExampleGrid[1][2] - ExampleGrid[1][1] = 1024

\* C14 witness: two or more grid rows with a partial last row, over an image
\* narrower than one tile.
C14_Witness ==
  /\ pc = "grid_done"
  /\ rows > row_tile_size /\ rows % row_tile_size # 0
  /\ cols > 0 /\ cols < col_tile_size
  /\ Len(indices) >= 2
  /\ indices[Len(indices)][2] - indices[Len(indices)][1] < row_tile_size

\* ------------------------------------------------------------------------
\* Further properties of the tile summary
\* ------------------------------------------------------------------------
SummaryCallEnded == pc = "summary_done" \/ pc = "summary_failed"

\* C12: when the tissue percentage of some tile cannot be computed the call
\* of compute_tile_summary ends in an error and the caller gets no
\* TileSummary, whatever the number of tiles handled before; otherwise it
\* returns the summary of all tiles.
C12_TileFailureAbortsSummary ==
  SummaryCallEnded =>
    /\ FailingTiles(tile_percents) # {} =>
         (pc = "summary_failed" /\ tile_sum = NoSummary /\ ~top.called)
    /\ FailingTiles(tile_percents) = {} =>
         (pc = "summary_done" /\ Len(tile_sum.tiles) = NumTilesOf(img))

\* C12 witness: the call failed on the last of four tiles, after three tiles
\* had been measured.
C12_Witness ==
  /\ pc = "summary_failed"
  /\ Len(tile_percents) = 4
  /\ FailingTiles(tile_percents) = {4}

\* the i-th tile has number i and the row-major 1-based grid position
TilesInGridOrder ==
  pc = "summary_done" =>
    \A i \in 1..Len(tile_sum.tiles) :
      /\ tile_sum.tiles[i].tile_num = i
      /\ tile_sum.tiles[i].r = ((i - 1) \div tile_sum.num_col_tiles) + 1
      /\ tile_sum.tiles[i].c = ((i - 1) % tile_sum.num_col_tiles) + 1

\* C15: the tiles of a summary are numbered 1, 2, ... in row-major order of
\* their 1-based grid positions, and no step taken after the summary was
\* returned, top_tiles included, changes the summary.
C15_GridOrderPermanent ==
  /\ []TilesInGridOrder
  /\ [][pc = "summary_done" => tile_sum' = tile_sum]_vars

\* C15 witness: top_tiles returned the four tiles of a 2 x 2 grid in another
\* order than the grid order.
C15_Witness ==
  /\ top.called
  /\ Len(tile_sum.tiles) = 4
  /\ tile_sum.num_col_tiles = 2
  /\ top.tiles[1].tile_num # 1
  /\ tile_sum.tiles[4].r = 2 /\ tile_sum.tiles[4].c = 2

\* ------------------------------------------------------------------------
\* Further properties of the batch scheduler
\* ------------------------------------------------------------------------
\* the slides on which the worker of task t has called summary(): those it
\* finished and, when it raised, the one it raised on
Touched(t) ==
  Elems(SubSeq(tasks[t], 1,
               Len(workers[t].done) + (IF workers[t].status = "raised" THEN 1 ELSE 0)))

\* C13: each worker walks through its own task in order, and at every moment
\* of every interleaving the slides two different workers have called
\* summary() on are disjoint, so that no slide (and no file named after a
\* slide) is handled by two workers.
C13_WorkersTouchDisjointSlides ==
  /\ \A t \in 1..Len(workers) :
       /\ Len(workers[t].done) <= Len(tasks[t])
       /\ workers[t].done = SubSeq(tasks[t], 1, Len(workers[t].done))
       /\ \A s \in Elems(workers[t].done) : Count(workers[t].done, s) = 1
  /\ \A t1, t2 \in 1..Len(workers) :
       t1 # t2 => Touched(t1) \cap Touched(t2) = {}

\* C13 witness: two workers are running at the same time, each with a slide
\* done and a slide still to do.
C13_Witness ==
  \E t1, t2 \in 1..Len(workers) :
    /\ t1 # t2
    /\ workers[t1].status = "running" /\ workers[t2].status = "running"
    /\ workers[t1].done # << >> /\ workers[t2].done # << >>
    /\ Len(workers[t1].done) < Len(tasks[t1])
    /\ Len(workers[t2].done) < Len(tasks[t2])

\* C16 as stated: the worker count P is the smaller of the cpu count and the
\* slide count, task i holds the slides at positions
\* floor((i-1)*count/P)+1 .. floor(i*count/P) of the input, no task is empty
\* and two tasks differ in size by at most one.
C16_PartitionBoundaries ==
  Dispatched =>
    LET count == NumTrainImages(image_num_list, num_training_slides)
        P == Len(tasks)
        input == InputSlides(image_num_list, num_training_slides)
    IN /\ P = Min(num_cpus, count)
       /\ \A i \in 1..P :
            /\ tasks[i] = SubSeq(input, (((i - 1) * count) \div P) + 1,
                                 (i * count) \div P)
            /\ tasks[i] # << >>
       /\ \A i, j \in 1..P : Len(tasks[i]) - Len(tasks[j]) <= 1

\* C19: with a slide count of 0 the worker count is capped to 0 and the call
\* fails with ZeroDivisionError at images_per_process: no task is built, no
\* worker is started, nothing is collected and no report is written.
C19_ZeroCountFailsBeforeDispatch ==
  NumTrainImages(image_num_list, num_training_slides) = 0 =>
    /\ NumProcesses(num_cpus, 0) = 0
    /\ \/ pc = "start"
       \/ /\ pc = "failed" /\ error = "ZeroDivisionError"
          /\ tasks = << >> /\ workers = << >> /\ slide_nums = << >>
          /\ ~report.written

\* C19 witness: the call failed on an empty explicit list with a report
\* requested and more than one cpu.
C19_Witness ==
  /\ pc = "failed" /\ error = "ZeroDivisionError"
  /\ image_num_list = ListOf(<< >>)
  /\ html /\ num_cpus > 1

\* every dispatched worker has returned its list
AllWorkersReturned ==
  /\ pc = "collect" \/ pc = "done"
  /\ \A t \in 1..Len(workers) : workers[t].status = "returned"

\* the coordinator is past the results loop, with the results of all tasks
Finished ==
  /\ pc = "done"
  /\ idx = Len(tasks) + 1
  /\ slide_nums = Flatten(tasks)
  /\ html => report = ReportOf(generate_tiled_html_result(Flatten(tasks)))

\* C17: the step that generates the report is taken only when every task
\* has returned and its result was collected, so a worker that never returns
\* keeps the coordinator from the report for ever; and once every worker
\* has returned the coordinator eventually finishes with all results.
C17_ReportAfterAllWorkers ==
  /\ [][pc' = "done" /\ pc # "done" =>
          /\ idx = Len(tasks) + 1
          /\ \A t \in 1..Len(workers) : workers[t].status = "returned"]_vars
  /\ [](report.written => pc = "done")
  /\ [](\A t \in 1..Len(workers) :
          (workers[t].status # "returned" \/ t >= idx) => pc # "done")
  /\ (AllWorkersReturned ~> Finished)

\* C17 witness: the coordinator finished a batch of three tasks and wrote
\* the report of their four slides.
C17_Witness ==
  /\ Finished
  /\ Len(tasks) = 3 /\ Len(slide_nums) = 4
  /\ report.written

\* the slides the workers of the pool have run summary() on, task by task
SlidesRunByPool == Flatten([t \in 1..Len(workers) |-> workers[t].done])

\* C18 as stated: when the pool run of an input without a failing slide has
\* finished, in whatever order its workers ran, summary() has run exactly
\* once on each slide the single-process run handles and on no other, and
\* the report is the one the single-process run writes.
C18_PoolRunEqualsSingleProcessRun ==
  (pc = "done" /\ bad_slides = {}) =>
    LET single == singleprocess_images_to_tile_summaries(
                    image_num_list, num_training_slides, html)
    IN /\ \A s \in Elems(single.summaries) \cup Elems(SlidesRunByPool) :
            /\ Count(single.summaries, s) = 1
            /\ Count(SlidesRunByPool, s) = 1
       /\ report = single.report

====
